---- MODULE Spec2Model ----
(***************************************************************************)
(* Model of scripts/scrape.js: the headless scraper that captures a page,  *)
(* extracts the embedded lot objects by brace matching, deduplicates them, *)
(* builds one report entry per requested lot and writes out/data.json.     *)
(*                                                                         *)
(* The page text is a sequence of lexical tokens.  Every token carries its *)
(* text, so the character offsets the code computes (idx, keyIdx, start,   *)
(* end) are the real offsets in the concatenated text.  Braces occur only  *)
(* as the one-character tokens LB and RB, and the marker "lot_number"      *)
(* occurs only at the start of a token whose key is lot_number.            *)
(***************************************************************************)
EXTENDS Integers, Sequences, FiniteSets, TLC

VARIABLES pc, html, idx, results, resultStart, last, iter, entries, total,
          failedStep, exitCode, writeCalls, outFile

\* iter is the parity of the number of iterations the scan loop of
\* extractLotObjects has run: an iteration is a step even when it leaves the
\* cursor and the results as they were.
vars == <<pc, html, idx, results, resultStart, last, iter, entries, total,
          failedStep, exitCode, writeCalls, outFile>>

(***************************************************************************)
(* Bounds of the enumerated page contents.                                 *)
(***************************************************************************)
MaxTokens == 5

MaxObjs == 2

(***************************************************************************)
(* JavaScript values.  A string is a sequence of characters, a number an   *)
(* integer (the enumerated inputs have zero fractional parts), an object a *)
(* function from keys to values.                                           *)
(***************************************************************************)
NoObj == [k \in {} |-> 0]

\* F(a) with the argument a evaluated once, before the call (JavaScript is
\* call-by-value)
Strict(F(_), a) == CHOOSE r \in {F(x) : x \in {a}} : TRUE

JNum(n) == [t |-> "num", n |-> n, s |-> <<>>, o |-> NoObj]

JStr(s) == [t |-> "str", n |-> 0, s |-> s, o |-> NoObj]

JBool(b) == [t |-> "bool", n |-> IF b THEN 1 ELSE 0, s |-> <<>>, o |-> NoObj]

JObj(o) == [t |-> "obj", n |-> 0, s |-> <<>>, o |-> o]

JNull == [t |-> "null", n |-> 0, s |-> <<>>, o |-> NoObj]

JUndef == [t |-> "undefined", n |-> 0, s |-> <<>>, o |-> NoObj]

\* x == null  (null or undefined)
IsNullish(x) == x.t \in {"null", "undefined"}

\* ToBoolean(x)
Truthy(x) ==
  CASE x.t = "num" -> x.n # 0
    [] x.t = "str" -> x.s # <<>>
    [] x.t = "bool" -> x.n = 1
    [] x.t = "obj" -> TRUE
    [] OTHER -> FALSE

\* a || b
OrElse(a, b) == IF Truthy(a) THEN a ELSE b

\* obj?.key on a parsed object value (undefined when obj is not an object)
Get(x, key) ==
  IF x.t = "obj" /\ key \in DOMAIN x.o THEN x.o[key] ELSE JUndef

Digits == <<"0", "1", "2", "3", "4", "5", "6", "7", "8", "9">>

IsDigit(c) == \E d \in 1..10 : Digits[d] = c

DigitVal(c) == (CHOOSE d \in 1..10 : Digits[d] = c) - 1

IsSpace(c) == c = " "

RECURSIVE DigitsValueUpTo(_, _)
\* the value of the first n characters of a run of decimal digits
DigitsValueUpTo(s, n) ==
  IF n = 0 THEN 0 ELSE 10 * DigitsValueUpTo(s, n - 1) + DigitVal(s[n])

\* the value of a run of decimal digits
DigitsValue(s) == Strict(LAMBDA d : DigitsValueUpTo(d, Len(d)), s)

RECURSIVE DigitsOf(_)
\* Number.prototype.toString of a non-negative integer
DigitsOf(n) ==
  IF n < 10 THEN <<Digits[n + 1]>>
  ELSE DigitsOf(n \div 10) \o <<Digits[(n % 10) + 1]>>

\* the length of the longest run of digits of s starting at position i
RECURSIVE DigitRun(_, _)
DigitRun(s, i) ==
  IF i <= Len(s) /\ IsDigit(s[i]) THEN 1 + DigitRun(s, i + 1) ELSE 0

\* the length of the longest run of spaces of s starting at position i
RECURSIVE SpaceRun(_, _)
SpaceRun(s, i) ==
  IF i <= Len(s) /\ IsSpace(s[i]) THEN 1 + SpaceRun(s, i + 1) ELSE 0

\* String.prototype.trim
Trim(s) ==
  LET lead == SpaceRun(s, 1)
      rest == SubSeq(s, lead + 1, Len(s))
      RECURSIVE TrailRun(_)
      TrailRun(k) == IF k >= 1 /\ IsSpace(rest[k]) THEN 1 + TrailRun(k - 1) ELSE 0
  IN SubSeq(rest, 1, Len(rest) - TrailRun(Len(rest)))

\* String(x) for the values a lot_number field holds
StringOf(x) ==
  CASE x.t = "str" -> x.s
    [] x.t = "num" -> DigitsOf(x.n)
    [] OTHER -> <<"?">>

\* Number(s) for a string of decimal digits (the requested lot identifiers)
Number(s) == DigitsValue(s)

\* x.replace(/,/g, "")
StripCommas(s) == SelectSeq(s, LAMBDA c : c # ",")

\* parseFloat(s): leading spaces are skipped, then the longest digit prefix
\* is read, with an optional fraction; NaN (JNull here, as toNumber maps it
\* to null) when there is no digit prefix.
ParseFloat(s) ==
  Strict(LAMBDA str :
           LET i == SpaceRun(str, 1) + 1
               d == DigitRun(str, i)
           IN IF d = 0 THEN JNull ELSE JNum(DigitsValue(SubSeq(str, i, i + d - 1))),
         s)

\* scrape.js toNumber
toNumber(x) ==
  IF IsNullish(x) THEN JNull
  ELSE IF x.t = "num" THEN x
  ELSE IF x.t = "str" THEN ParseFloat(StripCommas(x.s))
  ELSE JNull

(***************************************************************************)
(* Tokens of the page text.                                                *)
(***************************************************************************)
Tok(kind, txt, key, val) == [kind |-> kind, txt |-> txt, key |-> key, val |-> val]

LB == Tok("lb", "{", "", JUndef)

RB == Tok("rb", "}", "", JUndef)

COMMA == Tok("comma", ",", "", JUndef)

\* markup between the embedded objects
TEXT == Tok("text", "<p>", "", JUndef)

\* a U+2028 line separator (one character; written ~ here)
LS == Tok("ls", "~", "", JUndef)

\* a member "key":scalar
Field(key, txt, val) == Tok("field", txt, key, val)

\* the start of a member "key":{...}
Open(key, txt) == Tok("open", txt, key, JUndef)

Width(tok) == Len(tok.txt)

\* the marker the extractor searches for, "lot_number" with its quotes
MarkerLen == 12

HasMarker(tok) == tok.kind \in {"field", "open"} /\ tok.key = "lot_number"

(***************************************************************************)
(* Character offsets in the page text (0-based, as in the code).           *)
(***************************************************************************)
RECURSIVE Off(_, _)
\* the offset of the first character of token i
Off(h, i) == IF i = 1 THEN 0 ELSE Off(h, i - 1) + Width(h[i - 1])

\* html.length
HtmlLength(h) == Off(h, Len(h) + 1)

SetMin(S) == CHOOSE x \in S : \A y \in S : x <= y

SetMax(S) == CHOOSE x \in S : \A y \in S : x >= y

\* html.indexOf('"lot_number"', from)
IndexOfMarker(h, from) ==
  LET hits == {i \in 1..Len(h) : HasMarker(h[i]) /\ Off(h, i) >= from}
  IN IF hits = {} THEN -1 ELSE Off(h, SetMin(hits))

\* html[pos] === "{"
IsOpenAt(h, pos) == \E i \in 1..Len(h) : h[i].kind = "lb" /\ Off(h, i) = pos

\* let start = keyIdx; while (start > 0 && html[start] !== "{") start--;
ScanLeft(h, keyIdx) ==
  LET opens == {i \in 1..Len(h) : h[i].kind = "lb" /\ Off(h, i) <= keyIdx}
  IN IF opens = {} THEN 0 ELSE Off(h, SetMax(opens))

\* the token that starts at offset pos
TokAt(h, pos) == CHOOSE i \in 1..Len(h) : Off(h, i) = pos

RECURSIVE MatchFrom(_, _, _)
\* the for loop over end: the token index at which the depth returns to
\* zero, or Len(h) + 1 when the text ends first
MatchFrom(h, i, depth) ==
  IF i > Len(h) THEN i
  ELSE IF h[i].kind = "lb" THEN MatchFrom(h, i + 1, depth + 1)
  ELSE IF h[i].kind = "rb" THEN
    (IF depth - 1 = 0 THEN i ELSE MatchFrom(h, i + 1, depth - 1))
  ELSE MatchFrom(h, i + 1, depth)

\* the bracket match started at offset start: whether a closing brace was
\* found, the value of end when the loop is left, and the tokens sliced
MatchForward(h, start) ==
  Strict(LAMBDA i :
           Strict(LAMBDA j :
                    [found |-> j <= Len(h),
                     end |-> Off(h, j),
                     objText |-> IF j <= Len(h) THEN SubSeq(h, i, j) ELSE <<>>],
                  MatchFrom(h, i, 0)),
         TokAt(h, start))

(***************************************************************************)
(* The cleanup and JSON.parse of a candidate, on its tokens.               *)
(***************************************************************************)
\* .replace(/\u2028|\u2029/g, "")
StripSeparators(toks) == SelectSeq(toks, LAMBDA t : t.kind # "ls")

RECURSIVE StripCommasFrom(_, _)
\* the tokens from index i on, without the commas that a closing brace follows
StripCommasFrom(toks, i) ==
  IF i > Len(toks) THEN <<>>
  ELSE IF i < Len(toks) /\ toks[i].kind = "comma" /\ toks[i + 1].kind = "rb"
    THEN StripCommasFrom(toks, i + 1)
  ELSE <<toks[i]>> \o StripCommasFrom(toks, i + 1)

\* .replace(/,\s*([\]}])/g, "$1")
StripTrailingCommas(toks) == Strict(LAMBDA t : StripCommasFrom(t, 1), toks)

Cleanup(toks) == StripTrailingCommas(StripSeparators(toks))

ParseFail == [ok |-> FALSE, obj |-> NoObj, next |-> 0]

\* a later member with the same key replaces the earlier one
Put(o, key, val) == (key :> val) @@ o

RECURSIVE ParseObject(_, _)
RECURSIVE ParseMembers(_, _, _)
RECURSIVE MemberAt(_, _, _)
\* an object starting at token i: { } or { member (, member)* }
ParseObject(toks, i) ==
  IF i > Len(toks) \/ toks[i].kind # "lb" THEN ParseFail
  ELSE IF i + 1 <= Len(toks) /\ toks[i + 1].kind = "rb"
    THEN [ok |-> TRUE, obj |-> NoObj, next |-> i + 2]
  ELSE ParseMembers(toks, i + 1, NoObj)

\* the member at token i added to acc: "key":scalar or "key":{...}
MemberAt(toks, i, acc) ==
  IF i > Len(toks) THEN ParseFail
  ELSE IF toks[i].kind = "field"
    THEN [ok |-> TRUE, obj |-> Put(acc, toks[i].key, toks[i].val), next |-> i + 1]
  ELSE IF toks[i].kind = "open"
    THEN Strict(LAMBDA inner :
                  IF inner.ok
                    THEN [ok |-> TRUE,
                          obj |-> Put(acc, toks[i].key, JObj(inner.obj)),
                          next |-> inner.next]
                    ELSE ParseFail,
                ParseObject(toks, i + 1))
  ELSE ParseFail

\* the members from token i on, up to the closing brace
ParseMembers(toks, i, acc) ==
  Strict(LAMBDA member :
           IF ~member.ok \/ member.next > Len(toks) THEN ParseFail
           ELSE IF toks[member.next].kind = "rb"
             THEN [ok |-> TRUE, obj |-> member.obj, next |-> member.next + 1]
           ELSE IF toks[member.next].kind = "comma"
             THEN ParseMembers(toks, member.next + 1, member.obj)
           ELSE ParseFail,
         MemberAt(toks, i, acc))

\* JSON.parse of a text that starts with a brace: the object, or a
\* SyntaxError (ok = FALSE) unless the whole text is one object
JSONParse(toks) ==
  Strict(LAMBDA t :
           Strict(LAMBDA r :
                    IF r.ok /\ r.next = Len(t) + 1
                      THEN [ok |-> TRUE, obj |-> JObj(r.obj)]
                      ELSE [ok |-> FALSE, obj |-> JUndef],
                  ParseObject(t, 1)),
         toks)

(***************************************************************************)
(* pickBidForLot                                                           *)
(***************************************************************************)
Bid == <<"b", "i", "d">>

\* the positions at which /(\d+)\s*bids?/ matches: a full run of digits,
\* any spaces, then "bid"
BidMatches(s) ==
  {i \in 1..Len(s) :
     /\ IsDigit(s[i])
     /\ LET k == i + DigitRun(s, i) + SpaceRun(s, i + DigitRun(s, i))
        IN k + 2 <= Len(s) /\ SubSeq(s, k, k + 2) = Bid}

\* parseInt(match[1], 10) of the leftmost match, 0 without a match
BidCount(s) ==
  IF BidMatches(s) = {} THEN 0
  ELSE LET i == SetMin(BidMatches(s))
       IN DigitsValue(SubSeq(s, i, i + DigitRun(s, i) - 1))

\* bidCountTxt.match(...) is a TypeError when the field is truthy but no string
BidCountThrows(lotObj) ==
  LET txt == Get(lotObj, "bid_count_txt") IN Truthy(txt) /\ txt.t # "str"

\* pickBidForLot with has_no_bids also requiring that no current bid is present
pickBidForLotCurrentAware(lotObj) ==
  LET currentBid == toNumber(Get(lotObj, "current_bid"))
      nextBid == toNumber(Get(Get(lotObj, "online_only_dynamic_lot_data"), "next_bid"))
      bidCountTxt == Get(lotObj, "bid_count_txt")
      bidCount == IF Truthy(bidCountTxt) THEN BidCount(bidCountTxt.s) ELSE 0
      hasNoBids == \/ Get(lotObj, "has_no_bids") = JBool(TRUE)
                   \/ (bidCount = 0 /\ IsNullish(currentBid))
  IN [current_bid |-> IF hasNoBids THEN JNum(0) ELSE currentBid,
      next_bid |-> nextBid,
      currency_text |-> JNull,
      bid_count |-> bidCount,
      has_no_bids |-> hasNoBids]

pickBidForLot(lotObj) ==
  LET currentBid == toNumber(Get(lotObj, "current_bid"))
      nextBid == toNumber(Get(Get(lotObj, "online_only_dynamic_lot_data"), "next_bid"))
      currencyText ==
        OrElse(Get(lotObj, "current_bid_txt"),
          OrElse(Get(Get(lotObj, "online_only_dynamic_lot_data"), "next_bid_text"),
            OrElse(Get(Get(lotObj, "online_only_static_lot_data"), "header_price"),
              JNull)))
      bidCountTxt == Get(lotObj, "bid_count_txt")
      bidCount == IF Truthy(bidCountTxt) THEN BidCount(bidCountTxt.s) ELSE 0
      hasNoBids == Get(lotObj, "has_no_bids") = JBool(TRUE) \/ bidCount = 0
  IN [current_bid |-> IF hasNoBids THEN JNum(0) ELSE currentBid,
      next_bid |-> nextBid,
      currency_text |-> currencyText,
      bid_count |-> bidCount,
      has_no_bids |-> hasNoBids]

(***************************************************************************)
(* main: deduplication, entries, sort, total                               *)
(***************************************************************************)
\* the requested lot identifiers, in the insertion order of the Set
TARGET_LOTS ==
  << <<"5">>, <<"1", "8">>, <<"2", "0">>, <<"2", "8">>, <<"4", "5">>,
     <<"6", "9">>, <<"7", "5">>, <<"7", "9">>, <<"8", "6">>, <<"8", "7">>,
     <<"1", "0", "5">>, <<"1", "0", "6">>, <<"1", "1", "7">>, <<"1", "1", "8">>,
     <<"1", "4", "0">>, <<"1", "4", "1">>, <<"1", "4", "4">>, <<"1", "4", "5">>,
     <<"1", "4", "6">>, <<"1", "5", "8">> >>

\* String(lot?.lot_number || "").trim()
LotKey(lot) == Trim(StringOf(OrElse(Get(lot, "lot_number"), JStr(<<>>))))

RECURSIVE BuildLotMapLastWins(_, _, _)
\* BuildLotMap without the lotMap.has test: a later lot replaces the earlier
BuildLotMapLastWins(allLots, i, lotMap) ==
  Strict(LAMBDA m :
           IF i > Len(allLots) THEN m
           ELSE BuildLotMapLastWins(allLots, i + 1, (LotKey(allLots[i]) :> allLots[i]) @@ m),
         lotMap)

RECURSIVE BuildLotMap(_, _, _)
\* for (const lot of allLots) if (!lotMap.has(lotNum)) lotMap.set(lotNum, lot)
BuildLotMap(allLots, i, lotMap) ==
  Strict(LAMBDA m :
           IF i > Len(allLots) THEN m
           ELSE IF LotKey(allLots[i]) \in DOMAIN m
             THEN BuildLotMap(allLots, i + 1, m)
           ELSE BuildLotMap(allLots, i + 1, (LotKey(allLots[i]) :> allLots[i]) @@ m),
         lotMap)

\* Placeholder with has_no_bids left false
PlaceholderWithBids(n) ==
  [lot |-> n, current_bid |-> JNull, next_bid |-> JNull, shown_amount |-> JNull,
   status |-> JNull, estimate |-> JNull, bid_text |-> JNull,
   bid_count |-> 0, has_no_bids |-> FALSE]

Placeholder(n) ==
  [lot |-> n, current_bid |-> JNull, next_bid |-> JNull, shown_amount |-> JNull,
   status |-> JNull, estimate |-> JNull, bid_text |-> JNull,
   bid_count |-> 0, has_no_bids |-> TRUE]

\* FoundEntry with the next bid preferred to the current bid
FoundEntryNextFirst(lotNum, lot) ==
  Strict(LAMBDA bids :
  LET chosen ==
        IF ~IsNullish(bids.next_bid) THEN bids.next_bid
        ELSE IF ~IsNullish(bids.current_bid) THEN bids.current_bid
        ELSE JNull
  IN [lot |-> Number(lotNum),
      current_bid |-> bids.current_bid,
      next_bid |-> bids.next_bid,
      shown_amount |-> chosen,
      status |-> OrElse(Get(Get(lot, "online_only_dynamic_lot_data"), "item_status"), JNull),
      estimate |-> OrElse(Get(Get(lot, "online_only_static_lot_data"), "header_price"), JNull),
      bid_text |-> OrElse(bids.currency_text, JNull),
      bid_count |-> bids.bid_count,
      has_no_bids |-> bids.has_no_bids],
  pickBidForLot(lot))

\* the entry pushed for a lot found in lotMap
FoundEntry(lotNum, lot) ==
  Strict(LAMBDA bids :
  LET chosen ==
        IF ~IsNullish(bids.current_bid) THEN bids.current_bid
        ELSE IF ~IsNullish(bids.next_bid) THEN bids.next_bid
        ELSE JNull
  IN [lot |-> Number(lotNum),
      current_bid |-> bids.current_bid,
      next_bid |-> bids.next_bid,
      shown_amount |-> chosen,
      status |-> OrElse(Get(Get(lot, "online_only_dynamic_lot_data"), "item_status"), JNull),
      estimate |-> OrElse(Get(Get(lot, "online_only_static_lot_data"), "header_price"), JNull),
      bid_text |-> OrElse(bids.currency_text, JNull),
      bid_count |-> bids.bid_count,
      has_no_bids |-> bids.has_no_bids],
  pickBidForLot(lot))

RECURSIVE BuildEntries(_, _, _)
\* for (const lotNum of TARGET_LOTS) { ... entries.push(...) }
BuildEntries(lotMap, i, acc) ==
  Strict(LAMBDA es :
           IF i > Len(TARGET_LOTS) THEN es
           ELSE LET lotNum == TARGET_LOTS[i]
                IN IF lotNum \notin DOMAIN lotMap
                     THEN BuildEntries(lotMap, i + 1, Append(es, Placeholder(Number(lotNum))))
                     ELSE BuildEntries(lotMap, i + 1,
                                       Append(es, FoundEntry(lotNum, lotMap[lotNum]))),
         acc)

RECURSIVE EnsurePresent(_, _)
\* for (const t of TARGET_LOTS) if (!entries.find(e => e.lot === n)) entries.push(...)
EnsurePresent(i, acc) ==
  Strict(LAMBDA es :
           IF i > Len(TARGET_LOTS) THEN es
           ELSE IF \E k \in 1..Len(es) : es[k].lot = Number(TARGET_LOTS[i])
             THEN EnsurePresent(i + 1, es)
           ELSE EnsurePresent(i + 1, Append(es, Placeholder(Number(TARGET_LOTS[i])))),
         acc)

\* the comparator with its operands swapped
CompareLotsDescending(a, b) == b.lot - a.lot

\* the comparator (a, b) => a.lot - b.lot
CompareLots(a, b) == a.lot - b.lot

\* the position of es[i] after a stable sort with the comparator
SortedPosition(es, i) ==
  1 + Cardinality({j \in 1..Len(es) :
                     \/ CompareLots(es[j], es[i]) < 0
                     \/ (CompareLots(es[j], es[i]) = 0 /\ j < i)})

\* entries.sort((a, b) => a.lot - b.lot): a stable sort
SortEntries(es) ==
  Strict(LAMBDA e :
           [k \in 1..Len(e) |-> e[CHOOSE i \in 1..Len(e) : SortedPosition(e, i) = k]],
         es)

RECURSIVE ReduceInverted(_, _, _)
\* Reduce with the has_no_bids test inverted
ReduceInverted(es, i, s) ==
  IF i > Len(es) THEN s
  ELSE IF ~es[i].has_no_bids THEN ReduceInverted(es, i + 1, s)
  ELSE ReduceInverted(es, i + 1,
         s + (IF es[i].shown_amount.t = "num" THEN es[i].shown_amount.n ELSE 0))

RECURSIVE Reduce(_, _, _)
\* entries.reduce((s, e) => e.has_no_bids ? s : s + (number ? shown : 0), 0)
Reduce(es, i, s) ==
  IF i > Len(es) THEN s
  ELSE IF es[i].has_no_bids THEN Reduce(es, i + 1, s)
  ELSE Reduce(es, i + 1,
         s + (IF es[i].shown_amount.t = "num" THEN es[i].shown_amount.n ELSE 0))

\* the lot of lotMap whose pickBidForLot throws, if a requested one does
AggregateThrows(allLots) ==
  Strict(LAMBDA lotMap :
           \E i \in 1..Len(TARGET_LOTS) :
             /\ TARGET_LOTS[i] \in DOMAIN lotMap
             /\ BidCountThrows(lotMap[TARGET_LOTS[i]]),
         BuildLotMap(allLots, 1, NoObj))

\* the entries main builds from the extracted objects, sorted
EntriesOf(allLots) ==
  Strict(LAMBDA lotMap : SortEntries(EnsurePresent(1, BuildEntries(lotMap, 1, <<>>))),
         BuildLotMap(allLots, 1, NoObj))

\* const total = entries.reduce(..., 0)
TotalOf(es) == Strict(LAMBDA e : Reduce(e, 1, 0), es)

(***************************************************************************)
(* The page contents enumerated.                                           *)
(***************************************************************************)
MK == Field("lot_number", "\"lot_number\":\"5\"", JStr(<<"5">>))

LotNum18 == Field("lot_number", "\"lot_number\":\" 18 \"", JStr(<<" ", "1", "8", " ">>))

LotNum20 == Field("lot_number", "\"lot_number\":20", JNum(20))

LotNum7 == Field("lot_number", "\"lot_number\":\"7\"", JStr(<<"7">>))

Cur1400 ==
  Field("current_bid", "\"current_bid\":\"1,400.00\"",
        JStr(<<"1", ",", "4", "0", "0", ".", "0", "0">>))

CurAbc == Field("current_bid", "\"current_bid\":\"abc\"", JStr(<<"a", "b", "c">>))

Cur900 == Field("current_bid", "\"current_bid\":900", JNum(900))

CurTxt ==
  Field("current_bid_txt", "\"current_bid_txt\":\"USD 900\"",
        JStr(<<"U", "S", "D", " ", "9", "0", "0">>))

DynOpen == Open("online_only_dynamic_lot_data", "\"online_only_dynamic_lot_data\":")

Next1500 == Field("next_bid", "\"next_bid\":\"1,500\"", JStr(<<"1", ",", "5", "0", "0">>))

Status == Field("item_status", "\"item_status\":\"open\"", JStr(<<"o", "p", "e", "n">>))

Cnt3 ==
  Field("bid_count_txt", "\"bid_count_txt\":\" - 3 bids\"",
        JStr(<<" ", "-", " ", "3", " ", "b", "i", "d", "s">>))

Cnt0 ==
  Field("bid_count_txt", "\"bid_count_txt\":\" - 0 bids\"",
        JStr(<<" ", "-", " ", "0", " ", "b", "i", "d", "s">>))

Cnt1 == Field("bid_count_txt", "\"bid_count_txt\":\"1 bid\"", JStr(<<"1", " ", "b", "i", "d">>))

CntNum == Field("bid_count_txt", "\"bid_count_txt\":6", JNum(6))

NoBids == Field("has_no_bids", "\"has_no_bids\":true", JBool(TRUE))

\* every text of at most MaxTokens tokens over braces, markup and the marker
StructPages == UNION {[1..n -> {LB, RB, MK, TEXT}] : n \in 0..MaxTokens}

\* lot objects over the product of the fields pickBidForLot reads
RichLots ==
  {<<LB, n>> \o c \o x \o b \o h \o <<RB>> :
     n \in {MK, LotNum18},
     c \in {<<>>, <<COMMA, Cur1400>>, <<COMMA, CurAbc>>},
     x \in {<<>>, <<COMMA, DynOpen, LB, Next1500, RB>>},
     b \in {<<>>, <<COMMA, Cnt3>>, <<COMMA, Cnt0>>, <<COMMA, CntNum>>},
     h \in {<<>>, <<COMMA, NoBids>>}}

PlainLots ==
  { <<LB, MK, COMMA, Cur900, COMMA, CurTxt, COMMA, Cnt1, RB>>,
    <<LB, LotNum18, COMMA, Cur1400, COMMA, Cnt3, RB>>,
    <<LB, LotNum20, COMMA, DynOpen, LB, Next1500, COMMA, Status, RB,
      COMMA, Cnt3, COMMA, LS, RB>>,
    <<LB, LotNum7, COMMA, Cur900, COMMA, Cnt3, RB>> }

RECURSIVE Flatten(_)
Flatten(ss) == IF ss = <<>> THEN <<>> ELSE Head(ss) \o Flatten(Tail(ss))

\* pages of at most MaxObjs lot objects, at most one of them outside PlainLots
LotPages ==
  LET plain == UNION {[1..n -> PlainLots] : n \in 0..MaxObjs}
      short == UNION {[1..n -> PlainLots] : n \in 0..(MaxObjs - 1)}
  IN {Flatten(p) : p \in plain}
     \cup UNION {{Flatten(SubSeq(p, 1, k) \o <<r>> \o SubSeq(p, k + 1, Len(p))) :
                    k \in 0..Len(p), r \in RichLots} : p \in short}

Pages == StructPages \cup LotPages

(***************************************************************************)
(* The run of main.                                                        *)
(***************************************************************************)
\* the cap on the growth of results when the scan loop does not end
MaxResults == 3

NoLocals == [keyIdx |-> -1, start |-> 0, end |-> 0, sliced |-> FALSE, parsed |-> FALSE]

NoFile == [written |-> FALSE]

Init ==
  /\ pc = "launch"
  /\ html = <<>>
  /\ idx = 0
  /\ results = <<>>
  /\ resultStart = <<>>
  /\ last = NoLocals
  /\ iter = 0
  /\ entries = <<>>
  /\ total = 0
  /\ failedStep = "none"
  /\ exitCode = -1
  /\ writeCalls = 0
  /\ outFile = NoFile

\* an await: the promise resolves and main goes on, or it rejects and the
\* rejection leaves main
Await(step, next) ==
  /\ pc = step
  /\ \E ok \in BOOLEAN :
       IF ok THEN pc' = next /\ failedStep' = failedStep
       ELSE pc' = "rejected" /\ failedStep' = step

Launch ==
  /\ Await("launch", "newContext")
  /\ UNCHANGED <<html, idx, results, resultStart, last, iter, entries,
                 total, exitCode, writeCalls, outFile>>

NewContext ==
  /\ Await("newContext", "newPage")
  /\ UNCHANGED <<html, idx, results, resultStart, last, iter, entries,
                 total, exitCode, writeCalls, outFile>>

NewPage ==
  /\ Await("newPage", "goto")
  /\ UNCHANGED <<html, idx, results, resultStart, last, iter, entries,
                 total, exitCode, writeCalls, outFile>>

Goto ==
  /\ Await("goto", "waitForTimeout")
  /\ UNCHANGED <<html, idx, results, resultStart, last, iter, entries,
                 total, exitCode, writeCalls, outFile>>

WaitForTimeout ==
  /\ Await("waitForTimeout", "content")
  /\ UNCHANGED <<html, idx, results, resultStart, last, iter, entries,
                 total, exitCode, writeCalls, outFile>>

\* const html = await page.content()
Content ==
  /\ Await("content", "close")
  /\ IF pc' = "close" THEN html' \in Pages ELSE html' = html
  /\ UNCHANGED <<idx, results, resultStart, last, iter, entries, total,
                 exitCode, writeCalls, outFile>>

\* await browser.close(); extractLotObjects starts with idx = 0
Close ==
  /\ Await("close", "extract")
  /\ UNCHANGED <<html, idx, results, resultStart, last, iter, entries,
                 total, exitCode, writeCalls, outFile>>

\* the locals and idx after one iteration of the while (true) loop that
\* found the marker at keyIdx
Iteration(h, keyIdx) ==
  LET start == ScanLeft(h, keyIdx)
  IN IF ~IsOpenAt(h, start)
       THEN [idx |-> keyIdx + MarkerLen, push |-> FALSE, obj |-> JUndef,
             locals |-> [keyIdx |-> keyIdx, start |-> start, end |-> start,
                         sliced |-> FALSE, parsed |-> FALSE]]
       ELSE Strict(LAMBDA m :
              Strict(LAMBDA parse :
                       [idx |-> m.end + 1, push |-> parse.ok, obj |-> parse.obj,
                        locals |-> [keyIdx |-> keyIdx, start |-> start, end |-> m.end,
                                    sliced |-> m.found, parsed |-> parse.ok]],
                     IF m.found THEN JSONParse(Cleanup(m.objText))
                     ELSE [ok |-> FALSE, obj |-> JUndef]),
              MatchForward(h, start))

\* one iteration of the scan loop of extractLotObjects
ScanStep ==
  /\ pc = "extract"
  /\ \E keyIdx \in {IndexOfMarker(html, idx)} :
       IF keyIdx = -1
          THEN /\ pc' = "aggregate"
               /\ UNCHANGED <<idx, results, resultStart, last, iter>>
          ELSE \E it \in {Iteration(html, keyIdx)} :
                  /\ it.push => Len(results) < MaxResults
                  /\ pc' = "extract"
                  /\ idx' = it.idx
                  /\ last' = it.locals
                  /\ iter' = 1 - iter
                  /\ results' = IF it.push THEN Append(results, it.obj) ELSE results
                  /\ resultStart' = IF it.push THEN Append(resultStart, it.locals.start)
                                    ELSE resultStart
  /\ UNCHANGED <<html, entries, total, failedStep, exitCode, writeCalls, outFile>>

\* the rest of the synchronous block: lotMap, entries, sort, total; a throw
\* of pickBidForLot rejects main
Aggregate ==
  /\ pc = "aggregate"
  /\ IF AggregateThrows(results)
       THEN /\ pc' = "rejected"
            /\ failedStep' = "aggregate"
            /\ UNCHANGED <<entries, total>>
       ELSE /\ pc' = "mkdir"
            /\ \E es \in {EntriesOf(results)} :
                 /\ entries' = es
                 /\ total' = TotalOf(es)
            /\ UNCHANGED failedStep
  /\ UNCHANGED <<html, idx, results, resultStart, last, iter, exitCode,
                 writeCalls, outFile>>

\* await fs.mkdir("out", { recursive: true })
MkDir ==
  /\ Await("mkdir", "writeFile")
  /\ UNCHANGED <<html, idx, results, resultStart, last, iter, entries,
                 total, exitCode, writeCalls, outFile>>

Report ==
  [written |-> TRUE,
   lots_requested |-> SortEntries([i \in 1..Len(TARGET_LOTS) |-> [lot |-> Number(TARGET_LOTS[i])]]),
   total |-> total,
   lots_with_bids |-> Cardinality({i \in 1..Len(entries) : ~entries[i].has_no_bids}),
   lots_without_bids |-> Cardinality({i \in 1..Len(entries) : entries[i].has_no_bids}),
   entries |-> entries]

\* await fs.writeFile(path.resolve("out/data.json"), JSON.stringify(...))
WriteFile ==
  /\ Await("writeFile", "log")
  /\ writeCalls' = writeCalls + 1
  /\ outFile' = IF pc' = "log" THEN Report ELSE outFile
  /\ UNCHANGED <<html, idx, results, resultStart, last, iter, entries,
                 total, exitCode>>

\* console.log(...); main's promise resolves and the process ends
Log ==
  /\ pc = "log"
  /\ pc' = "exited"
  /\ exitCode' = 0
  /\ UNCHANGED <<html, idx, results, resultStart, last, iter, entries,
                 total, failedStep, writeCalls, outFile>>

\* main().catch(err => { console.error(err); process.exit(1); })
Catch ==
  /\ pc = "rejected"
  /\ pc' = "exited"
  /\ exitCode' = 1
  /\ UNCHANGED <<html, idx, results, resultStart, last, iter, entries,
                 total, failedStep, writeCalls, outFile>>

Next ==
  \/ Launch
  \/ NewContext
  \/ NewPage
  \/ Goto
  \/ WaitForTimeout
  \/ Content
  \/ Close
  \/ ScanStep
  \/ Aggregate
  \/ MkDir
  \/ WriteFile
  \/ Log
  \/ Catch

Spec == Init /\ [][Next]_vars

\* the runtime keeps running main: every enabled step is eventually taken
FairSpec == Spec /\ WF_vars(Next)

(***************************************************************************)
(* Properties.                                                             *)
(***************************************************************************)
Targets == {TARGET_LOTS[i] : i \in 1..Len(TARGET_LOTS)}

\* the scan loop has ended and results is what extractLotObjects returns
ExtractionDone == pc = "aggregate"

\* main has built entries and total
EntriesBuilt == entries # <<>>

\* the extracted objects whose lot identifier is t
SameKey(t) == {i \in 1..Len(results) : LotKey(results[i]) = t}

\* among them, the one that starts first in the page text
FirstInText(t) ==
  CHOOSE i \in SameKey(t) : \A j \in SameKey(t) : resultStart[i] <= resultStart[j]

HasEntry(es, n) == \E k \in 1..Len(es) : es[k].lot = n

EntryFor(es, n) == es[CHOOSE k \in 1..Len(es) : es[k].lot = n]

\* the nearest unmatched opening brace to the left of offset pos, -1 if none
RECURSIVE UnmatchedLeft(_, _, _)
UnmatchedLeft(h, i, closed) ==
  IF i < 1 THEN -1
  ELSE IF h[i].kind = "rb" THEN UnmatchedLeft(h, i - 1, closed + 1)
  ELSE IF h[i].kind = "lb" THEN
    (IF closed = 0 THEN Off(h, i) ELSE UnmatchedLeft(h, i - 1, closed - 1))
  ELSE UnmatchedLeft(h, i - 1, closed)

EnclosingOpen(h, keyIdx) == UnmatchedLeft(h, TokAt(h, keyIdx) - 1, 0)

\* the marker key at the top level of an object or of one of its members
ContainsMarkerKey(obj) ==
  \/ "lot_number" \in DOMAIN obj.o
  \/ \E k \in DOMAIN obj.o : obj.o[k].t = "obj" /\ "lot_number" \in DOMAIN obj.o[k].o

\* the marker occurrences (token indices) of a text
Markers(h) == {m \in 1..Len(h) : HasMarker(h[m])}

\* a marker occurrence whose enclosing candidate never closes
Unbalanced(h, m) ==
  /\ EnclosingOpen(h, Off(h, m)) # -1
  /\ MatchFrom(h, TokAt(h, EnclosingOpen(h, Off(h, m))), 0) > Len(h)

\* a marker occurrence whose enclosing candidate closes at token j but is
\* not valid JSON
InvalidUpTo(h, m, j) ==
  /\ EnclosingOpen(h, Off(h, m)) # -1
  /\ j = MatchFrom(h, TokAt(h, EnclosingOpen(h, Off(h, m))), 0)
  /\ j <= Len(h)
  /\ ~JSONParse(Cleanup(SubSeq(h, TokAt(h, EnclosingOpen(h, Off(h, m))), j))).ok

\* a well-formed, parseable object with the marker key at tokens i..j
ValidLot(h, i, j) ==
  /\ h[i].kind = "lb"
  /\ MatchFrom(h, i, 0) = j
  /\ j <= Len(h)
  /\ JSONParse(Cleanup(SubSeq(h, i, j))).ok
  /\ "lot_number" \in DOMAIN JSONParse(Cleanup(SubSeq(h, i, j))).obj.o

Returned(h, i, j) ==
  \E r \in 1..Len(results) : results[r] = JSONParse(Cleanup(SubSeq(h, i, j))).obj

\* C1: when extraction has ended, every well-formed, parseable object with
\* the marker key that starts after a malformed candidate (after the marker
\* of an unbalanced one, after the closing brace of an invalid one) is among
\* the returned objects.
C1_LaterValidObjectKept ==
  ExtractionDone =>
    \A m \in Markers(html) : \A i \in 1..Len(html) : \A j \in 1..Len(html) :
      (/\ ValidLot(html, i, j)
       /\ \/ (Unbalanced(html, m) /\ i > m)
          \/ \E e \in 1..Len(html) : InvalidUpTo(html, m, e) /\ i > e)
      => Returned(html, i, j)

\* C2: every candidate sliced starts at the opening brace that encloses the
\* marker occurrence being processed and spans that occurrence, and every
\* returned object contains the marker key.
C2_CandidateEnclosesMarker ==
  /\ last.sliced =>
       /\ last.start = EnclosingOpen(html, last.keyIdx)
       /\ last.start <= last.keyIdx
       /\ last.keyIdx + MarkerLen <= last.end + 1
  /\ \A r \in 1..Len(results) : ContainsMarkerKey(results[r])

\* C3: the written report holds exactly one entry per requested lot and no
\* other entry, in ascending order of the numeric lot id.
C3_OneEntryPerRequestedLot ==
  outFile.written =>
    LET es == outFile.entries
    IN /\ \A t \in Targets :
            Cardinality({k \in 1..Len(es) : es[k].lot = Number(t)}) = 1
       /\ \A k \in 1..Len(es) : \E t \in Targets : es[k].lot = Number(t)
       /\ \A k \in 1..(Len(es) - 1) : es[k].lot < es[k + 1].lot

\* a report written from a page that holds a requested lot with bids and a
\* lot that was not requested
C3_Witness ==
  /\ outFile.written
  /\ \E k \in 1..Len(outFile.entries) : ~outFile.entries[k].has_no_bids
  /\ \E r \in 1..Len(results) : LotKey(results[r]) \notin Targets

RECURSIVE SumShown(_, _)
\* the sum of the numeric shown amounts of the entries with index in S
SumShown(es, S) ==
  IF S = {} THEN 0
  ELSE LET k == CHOOSE x \in S : TRUE
       IN (IF es[k].shown_amount.t = "num" THEN es[k].shown_amount.n ELSE 0)
          + SumShown(es, S \ {k})

CurrentElseNext(lot) ==
  IF ~IsNullish(toNumber(Get(lot, "current_bid")))
    THEN toNumber(Get(lot, "current_bid"))
  ELSE IF ~IsNullish(toNumber(Get(Get(lot, "online_only_dynamic_lot_data"), "next_bid")))
    THEN toNumber(Get(Get(lot, "online_only_dynamic_lot_data"), "next_bid"))
  ELSE JNull

C6_FirstOccurrenceWins ==
  EntriesBuilt =>
    \A t \in Targets : SameKey(t) # {} =>
      EntryFor(entries, Number(t)) = FoundEntry(t, results[FirstInText(t)])

\* two objects with the same identifier that would give different entries
C6_Witness ==
  /\ EntriesBuilt
  /\ \E t \in Targets : \E j \in SameKey(t) :
       /\ j # FirstInText(t)
       /\ resultStart[j] > resultStart[FirstInText(t)]
       /\ FoundEntry(t, results[j]) # FoundEntry(t, results[FirstInText(t)])

\* the N of the "<N> bid(s)" match in bid_count_txt, 0 when the field is
\* missing or does not match
CountOf(lot) ==
  IF Get(lot, "bid_count_txt").t = "str" THEN BidCount(Get(lot, "bid_count_txt").s) ELSE 0

C8_Outcome ==
  /\ writeCalls <= 1
  /\ outFile.written => EntriesBuilt /\ outFile.entries = entries /\ outFile.total = total
  /\ pc = "exited" =>
       IF failedStep = "none"
         THEN exitCode = 0 /\ writeCalls = 1 /\ outFile.written
         ELSE exitCode = 1 /\ (outFile.written => FALSE)
  /\ writeCalls = 1 => EntriesBuilt

\* the scan loop is about to push one object more than the model keeps
ResultsBoundReached ==
  /\ pc = "extract"
  /\ Len(results) = MaxResults
  /\ IndexOfMarker(html, idx) # -1

\* C8: every run ends; a run with a failed step ends with status 1 and no
\* report, a run without one ends with status 0 and the report written
\* exactly once, after the entries and the total were computed.  (A run that
\* reaches the bound on the extracted objects is left out.)
C8_RunEndsWithOutcome ==
  [](C8_Outcome) /\ <>(pc = "exited" \/ ResultsBoundReached)

\* C9: the written report holds, for every requested lot that no extracted
\* object has, an entry with null bids, status, estimate and text and with
\* has_no_bids true.
C9_AbsentLotPlaceholder ==
  outFile.written =>
    \A t \in Targets : SameKey(t) = {} =>
      /\ HasEntry(outFile.entries, Number(t))
      /\ LET e == EntryFor(outFile.entries, Number(t))
         IN /\ e.current_bid = JNull /\ e.next_bid = JNull /\ e.shown_amount = JNull
            /\ e.status = JNull /\ e.estimate = JNull /\ e.bid_text = JNull
            /\ e.has_no_bids

\* a report from a page that has some requested lots and lacks others
C9_Witness ==
  /\ outFile.written
  /\ \E t \in Targets : SameKey(t) = {}
  /\ \E t \in Targets : SameKey(t) # {}

\* C10: every iteration of the scan loop that goes on leaves the cursor
\* beyond the marker occurrence it processed.
C10_CursorAdvances ==
  [][(pc = "extract" /\ pc' = "extract") =>
       (idx' > idx /\ idx' > IndexOfMarker(html, idx))]_vars

====
